---- MODULE Spec2Model ----
(***************************************************************************)
(* State-machine model of limn's constraint store, LimnSolver of           *)
(* src/layout/solver.rs (the variable-indexed wrapper around the cassowary *)
(* solver), together with the two solver edits that src/ui/mod.rs applies  *)
(* through update_solver (set_root and window_resized), and of the Ui of   *)
(* src/ui/mod.rs that owns the store and the widget graph: attaching and   *)
(* detaching widgets, event dispatch by address and the redraw counter.    *)
(*                                                                         *)
(* Every public operation of the store runs to completion in one action;   *)
(* an operation is the composition of the steps of its body, each step an  *)
(* operator on a record holding the store's fields.  A failed unwrap or    *)
(* expect of the source is a panic: the field `panicked` records the       *)
(* error, the remaining steps of the operation are skipped and no further  *)
(* operation runs.                                                         *)
(***************************************************************************)
EXTENDS Integers, Sequences, FiniteSets, TLC

VARIABLES
    solver,                 \* cassowary::Solver: [cns, edits, vals]
    var_map,                \* HashMap<Variable, HashSet<Constraint>>
    constraint_map,         \* HashMap<Constraint, Vec<Variable>>
    widget_map,             \* HashMap<Variable, WidgetId>
    debug_constraint_list,  \* LinkedHashMap<Constraint, ()>, keys in list order
    events,                 \* the LayoutChanged events the latest operation sent
    panicked,               \* "none", or the error of the unwrap/expect that failed
    widgets,                \* per widget: "new", "set_root", "live" (added) or "removed"
    suggested,              \* per edit variable: value of the caller's latest suggestion
    last_op,                \* the latest operation: [op, w]
    graph,                  \* Ui.graph: [root_id, nodes], a node per attached widget
    redraw,                 \* Ui.redraw
    debug_draw_bounds,      \* Ui.debug_draw_bounds
    steps,                  \* what the latest operation of the Ui did, in order
    VAR_NAMES,              \* the HashMap<Variable, String> inside the Mutex
    lock,                   \* the thread that holds the Mutex of VAR_NAMES, or NoThread
    pc                      \* per thread: the call it is in, where, and what is left

vars == <<solver, var_map, constraint_map, widget_map, debug_constraint_list,
          events, panicked, widgets, suggested, last_op, graph, redraw,
          debug_draw_bounds, steps, VAR_NAMES, lock, pc>>

uivars == <<graph, redraw, debug_draw_bounds, steps>>

-----------------------------------------------------------------------------
(* Bounds of the model. *)

\* longest constraint list of one LayoutUpdate
MaxBatch == 2
\* longest edit-variable list of one LayoutUpdate
MaxEdits == 1
\* largest value a caller suggests for an edit variable
MaxVal == 1
\* how many times one constraint is handed to update_from_builder
MaxAdds == 2
\* the threads that register debug names and format constraints
MaxThreads == 2

-----------------------------------------------------------------------------
(* Widgets, their layout variables and the constraints builders hand over. *)

Root == "root"
Child == "child"
Widgets == {Root, Child}

\* the widgets of the Ui: the root, two children of it and a grandchild
Grand == "grand"
Sibling == "sibling"
UiWidgets == {Root, Child, Sibling, Grand}

Fields == {"left", "top", "right", "bottom", "width", "height"}
Var(w, f) == <<w, f>>
Vars == {Var(w, f) : w \in UiWidgets, f \in Fields}

\* LayoutVars of widget w
LayoutVars(w) == [f \in Fields |-> Var(w, f)]

Cn(k, w, o) == [kind |-> k, w |-> w, o |-> o]

\* The constraints of the model: the root's pins (top_left), a second pin
\* of its left that no solution satisfies together with the first, the
\* required width and height definitions, a constraint on a width alone,
\* and a constraint of the child relative to the root.
Catalogue ==
    { Cn("PinLeft", Root, Root),      \* root.left == 0
      Cn("PinLeftOne", Root, Root),   \* root.left == 1
      Cn("PinTop", Root, Root),       \* root.top == 0
      Cn("WidthDef", Root, Root),     \* root.width - root.right + root.left == 0
      Cn("HeightDef", Root, Root),    \* root.height - root.bottom + root.top == 0
      Cn("WidthPos", Root, Root),     \* root.width >= 0
      Cn("AlignLeft", Child, Root),   \* child.left - root.left == 0
      Cn("WidthDef", Child, Child) }  \* child.width - child.right + child.left == 0

\* constraint.0.expression.terms: the variables of the terms, in order
Terms(c) ==
    CASE c.kind = "PinLeft"   -> << Var(c.w, "left") >>
      [] c.kind = "PinLeftOne" -> << Var(c.w, "left") >>
      [] c.kind = "PinTop"    -> << Var(c.w, "top") >>
      [] c.kind = "WidthDef"  -> << Var(c.w, "width"), Var(c.w, "right"), Var(c.w, "left") >>
      [] c.kind = "HeightDef" -> << Var(c.w, "height"), Var(c.w, "bottom"), Var(c.w, "top") >>
      [] c.kind = "WidthPos"  -> << Var(c.w, "width") >>
      [] c.kind = "AlignLeft" -> << Var(c.w, "left"), Var(c.o, "left") >>
      [] c.kind = "BoundLeft"   -> << Var(c.w, "left"), Var(c.o, "left") >>
      [] c.kind = "BoundTop"    -> << Var(c.w, "top"), Var(c.o, "top") >>
      [] c.kind = "BoundRight"  -> << Var(c.w, "right"), Var(c.o, "right") >>
      [] c.kind = "BoundBottom" -> << Var(c.w, "bottom"), Var(c.o, "bottom") >>

TermVars(c) == {Terms(c)[i] : i \in 1..Len(Terms(c))}

\* The constraints of the root's builder when set_root attaches it: the
\* width and height definitions of its construction, then the pins that
\* layout().top_left(0, 0) appends.
RootBuild ==
    << Cn("WidthDef", Root, Root), Cn("HeightDef", Root, Root),
       Cn("PinLeft", Root, Root), Cn("PinTop", Root, Root) >>

-----------------------------------------------------------------------------
(* HashMap and list helpers. *)

MapPut(m, k, v) == [x \in (DOMAIN m) \cup {k} |-> IF x = k THEN v ELSE m[x]]
MapRemove(m, k) == [x \in (DOMAIN m) \ {k} |-> m[x]]
EmptyMap == [x \in {} |-> 0]

RECURSIVE SeqWithout(_, _)
SeqWithout(seq, x) ==
    IF seq = <<>> THEN <<>>
    ELSE IF Head(seq) = x THEN SeqWithout(Tail(seq), x)
    ELSE <<Head(seq)>> \o SeqWithout(Tail(seq), x)

SeqRange(seq) == {seq[i] : i \in 1..Len(seq)}

\* a set as a list without repetition (iteration of a HashSet)
RECURSIVE SetToSeq(_)
SetToSeq(S) ==
    IF S = {} THEN <<>>
    ELSE LET x == CHOOSE y \in S : TRUE IN <<x>> \o SetToSeq(S \ {x})

\* all lists over S of length at most n
SeqsUpTo(S, n) == UNION {[1..k -> S] : k \in 0..n}

\* those that list no element twice
DistinctSeqsUpTo(S, n) ==
    {q \in SeqsUpTo(S, n) : \A i, j \in 1..Len(q) : i # j => q[i] # q[j]}

-----------------------------------------------------------------------------
(* The cassowary solver, by its interface.  cns are the constraints it     *)
(* holds, edits the registered edit variables with their suggested values, *)
(* vals the value of every variable as of the latest fetch_changes.        *)

NoPanic == "none"

Panic(s, err) == [s EXCEPT !.panicked = err]

\* The solution of the constraints of the Catalogue: a left is 1 when
\* pinned to 1, the root's left when aligned to it, and 0 otherwise (pinned
\* to 0 or free); every top is 0; a right or bottom is its suggested value
\* when it is an edit variable and 0 otherwise; a width or height is
\* right - left or bottom - top while its defining constraint is in the
\* solver and 0 otherwise.  A variable the constraints leave free has the
\* value 0 the solver gives a variable nothing moves.  The contained-within
\* inequalities of bound_by hold at these values wherever the model adds
\* them (no right or bottom is suggested there) and move nothing.
Value(sv, v) ==
    LET w == v[1]
        f == v[2]
        edit(x) == IF x \in DOMAIN sv.edits THEN sv.edits[x] ELSE 0
        pinned(x) == IF Cn("PinLeftOne", x, x) \in sv.cns THEN 1 ELSE 0
        left(x) == IF Cn("AlignLeft", x, Root) \in sv.cns /\ x # Root
                   THEN pinned(Root) ELSE pinned(x)
    IN  CASE f = "left"   -> left(w)
          [] f = "top"    -> 0
          [] f \in {"right", "bottom"} -> edit(v)
          [] f = "width"  -> IF Cn("WidthDef", w, w) \in sv.cns
                             THEN edit(Var(w, "right")) - left(w) ELSE 0
          [] f = "height" -> IF Cn("HeightDef", w, w) \in sv.cns
                             THEN edit(Var(w, "bottom")) - 0 ELSE 0

\* two required constraints no solution satisfies together: the pins of one
\* left to 0 and to 1
Conflict(c, d) ==
    /\ c.w = d.w
    /\ {c.kind, d.kind} = {"PinLeft", "PinLeftOne"}

HasConstraint(s, c) == c \in s.solver.cns

HasEditVariable(s, v) == v \in DOMAIN s.solver.edits

\* Solver::add_constraint: Err(DuplicateConstraint) for a constraint it
\* holds, Err(UnsatisfiableConstraint) for a required constraint that
\* conflicts with those it holds
SolverAddConstraint(s, c) ==
    IF HasConstraint(s, c) THEN Panic(s, "DuplicateConstraint")
    ELSE IF \E d \in s.solver.cns : Conflict(c, d)
         THEN Panic(s, "UnsatisfiableConstraint")
    ELSE [s EXCEPT !.solver.cns = @ \cup {c}]

\* Solver::remove_constraint: Err(UnknownConstraint) for one it does not hold
SolverRemoveConstraint(s, c) ==
    LET s1 == [s EXCEPT !.remove_calls = Append(@, c)]
    IN  IF ~HasConstraint(s, c) THEN Panic(s1, "UnknownConstraint")
        ELSE [s1 EXCEPT !.solver.cns = @ \ {c}]

\* Solver::add_edit_variable: Err(DuplicateEditVariable) when registered
SolverAddEditVariable(s, v) ==
    IF HasEditVariable(s, v) THEN Panic(s, "DuplicateEditVariable")
    ELSE [s EXCEPT !.solver.edits = MapPut(@, v, 0)]

\* Solver::suggest_value: Err(UnknownEditVariable) when not registered
SolverSuggestValue(s, v, val) ==
    IF ~HasEditVariable(s, v) THEN Panic(s, "UnknownEditVariable")
    ELSE [s EXCEPT !.solver.edits = MapPut(@, v, val)]

\* the variables the solver holds: those of the terms of its constraints
\* and its edit variables
Known(sv, v) ==
    \/ v \in DOMAIN sv.edits
    \/ \E c \in sv.cns : v \in TermVars(c)

\* Solver::fetch_changes: the (variable, value) pairs of the variables the
\* solver holds whose value differs from the one of the previous fetch
FetchChanges(s) ==
    LET known == (DOMAIN s.solver.edits) \cup UNION {TermVars(c) : c \in s.solver.cns}
    IN  {<<v, Value(s.solver, v)>> :
            v \in {x \in known : Value(s.solver, x) # s.solver.vals[x]}}

-----------------------------------------------------------------------------
(* LimnSolver. *)

\* check_changes.  A batch is the set of its entries: the order of the
\* entries follows the solver's and is not specified.
CheckChanges(s) ==
    IF s.panicked # NoPanic THEN s
    ELSE
    LET changes == FetchChanges(s)
        s1 == [s EXCEPT !.solver.vals = [v \in Vars |-> Value(s.solver, v)]]
        wchanges == {<<s.widget_map[ch[1]], ch[1], ch[2]>> :
                        ch \in {x \in changes : x[1] \in DOMAIN s.widget_map}}
    IN  IF Cardinality(changes) > 0
        THEN [s1 EXCEPT !.events = Append(@, wchanges)]
        ELSE s1

\* add_constraint that lists the newest constraint first
AddConstraintFront(s, c) ==
    SolverAddConstraint(
        [s EXCEPT !.debug_constraint_list = <<c>> \o SeqWithout(@, c)], c)

\* add_constraint: insert into the debug list (a key already listed moves
\* to the back), then into the solver, which must accept it
AddConstraint(s, c) ==
    SolverAddConstraint(
        [s EXCEPT !.debug_constraint_list = Append(SeqWithout(@, c), c)], c)

\* update_from_builder that registers the edit variable on every call
ApplyEditVarAlwaysAdd(s, ev) ==
    IF s.panicked # NoPanic THEN s
    ELSE
    LET s1 == SolverAddEditVariable(s, ev[1])
    IN  IF s1.panicked # NoPanic THEN s1
        ELSE SolverSuggestValue(s1, ev[1], ev[2])

\* update_from_builder, one edit variable: register if unseen, then suggest
ApplyEditVar(s, ev) ==
    IF s.panicked # NoPanic THEN s
    ELSE
    LET s1 == IF ~HasEditVariable(s, ev[1])
              THEN SolverAddEditVariable(s, ev[1]) ELSE s
    IN  IF s1.panicked # NoPanic THEN s1
        ELSE SolverSuggestValue(s1, ev[1], ev[2])

\* update_from_builder, the terms of one constraint: index it under each
\* term's variable and push the variable on the constraint's list
RECURSIVE IndexTerms(_, _, _)
IndexTerms(s, c, terms) ==
    IF terms = <<>> THEN s
    ELSE
    LET variable == Head(terms)
        cset == IF variable \in DOMAIN s.var_map THEN s.var_map[variable] ELSE {}
        s1 == [s EXCEPT !.var_map = MapPut(@, variable, cset \cup {c}),
                        !.constraint_map = MapPut(@, c, Append(@[c], variable))]
    IN  IndexTerms(s1, c, Tail(terms))

\* update_from_builder, one constraint
ApplyConstraint(s, c) ==
    IF s.panicked # NoPanic THEN s
    ELSE
    LET s1 == AddConstraint(s, c)
        s2 == IF c \in DOMAIN s1.constraint_map THEN s1
              ELSE [s1 EXCEPT !.constraint_map = MapPut(@, c, <<>>)]
    IN  IF s1.panicked # NoPanic THEN s1
        ELSE IndexTerms(s2, c, Terms(c))

RECURSIVE ApplyEditVars(_, _)
ApplyEditVars(s, evs) ==
    IF evs = <<>> THEN s ELSE ApplyEditVars(ApplyEditVar(s, Head(evs)), Tail(evs))

RECURSIVE ApplyConstraints(_, _)
ApplyConstraints(s, cs) ==
    IF cs = <<>> THEN s ELSE ApplyConstraints(ApplyConstraint(s, Head(cs)), Tail(cs))

\* update_from_builder that runs check_changes after the edit variables and
\* again after the constraints
UpdateFromBuilderEager(s, layout_update) ==
    CheckChanges(
        ApplyConstraints(CheckChanges(ApplyEditVars(s, layout_update.edit_vars)),
                         layout_update.constraints))

\* update_from_builder
UpdateFromBuilder(s, layout_update) ==
    CheckChanges(
        ApplyConstraints(ApplyEditVars(s, layout_update.edit_vars),
                         layout_update.constraints))

\* widget.debug_name: Ui::set_root names the root; the builders of the
\* callers set no name
DebugName(w) == IF w = Root THEN "root" ELSE "none"

\* format!("{}.left", debug_name) and the like
DebugVarName(debug_name, f) == <<debug_name, ".", f>>

\* add_debug_var_name, between taking the lock and dropping the guard
AddDebugVarName(names, var, name) == MapPut(names, var, name)

\* fmt_variable, between taking the lock and dropping the guard: the
\* registered name, or var(..) with the variable's id
FmtVariable(names, variable) ==
    IF variable \in DOMAIN names THEN names[variable] ELSE <<"var(", variable, ")">>

\* the variables add_widget names, lines 45-50, in order
NamedFields == <<"left", "top", "right", "bottom", "width", "height">>

\* add_widget, lines 44-51: within one thread every call takes the lock of
\* VAR_NAMES and gives it back
RECURSIVE AddDebugVarNames(_, _, _, _)
AddDebugVarNames(names, w, debug_name, fs) ==
    IF fs = <<>> THEN names
    ELSE AddDebugVarNames(
             AddDebugVarName(names, Var(w, Head(fs)), DebugVarName(debug_name, Head(fs))),
             w, debug_name, Tail(fs))

RegisterDebugNames(s, w) ==
    IF DebugName(w) = "none" THEN s
    ELSE [s EXCEPT !.VAR_NAMES = AddDebugVarNames(@, w, DebugName(w), NamedFields)]

\* add_widget that maps the four boundary variables to the widget
AddWidgetBoundary(s, w, layout_update) ==
    LET lv == LayoutVars(w)
        wm1 == MapPut(s.widget_map, lv.left, w)
        wm2 == MapPut(wm1, lv.top, w)
        wm3 == MapPut(wm2, lv.right, w)
        wm4 == MapPut(wm3, lv.bottom, w)
    IN  UpdateFromBuilder(RegisterDebugNames([s EXCEPT !.widget_map = wm4], w),
                          layout_update)

\* add_widget
AddWidget(s, w, layout_update) ==
    LET lv == LayoutVars(w)
        wm1 == MapPut(s.widget_map, lv.left, w)
        wm2 == MapPut(wm1, lv.top, w)
        wm3 == MapPut(wm2, lv.width, w)
        wm4 == MapPut(wm3, lv.height, w)
    IN  UpdateFromBuilder(RegisterDebugNames([s EXCEPT !.widget_map = wm4], w),
                          layout_update)

\* remove_widget that leaves the constraint sets of the other variables alone
StripNothing(s, c, var_list) == s

\* remove_widget, lines 64-69: strip the constraint from the constraint set
\* of every variable on its variable list
RECURSIVE StripConstraint(_, _, _)
StripConstraint(s, c, var_list) ==
    IF var_list = <<>> THEN s
    ELSE
    LET v == Head(var_list)
        s1 == IF v \in DOMAIN s.var_map
              THEN [s EXCEPT !.var_map = MapPut(@, v, @[v] \ {c})]
              ELSE s
    IN  StripConstraint(s1, c, Tail(var_list))

\* remove_widget that removes every constraint of a constraint set from the
\* solver, with no existence check and no clean-up of the other sets
RemoveIndexedUnchecked(s, c) ==
    IF s.panicked # NoPanic THEN s
    ELSE SolverRemoveConstraint(
            [s EXCEPT !.debug_constraint_list = SeqWithout(@, c)], c)

\* remove_widget, lines 59-71: one constraint of a variable's constraint set
RemoveIndexed(s, c) ==
    IF s.panicked # NoPanic THEN s
    ELSE IF HasConstraint(s, c)
    THEN LET s1 == [s EXCEPT !.debug_constraint_list = SeqWithout(@, c)]
             s2 == SolverRemoveConstraint(s1, c)
         IN  IF s2.panicked # NoPanic THEN s2
             ELSE IF c \in DOMAIN s2.constraint_map
             THEN StripConstraint(s2, c, s2.constraint_map[c])
             ELSE s2
    ELSE s

RECURSIVE RemoveAllIndexed(_, _)
RemoveAllIndexed(s, cs) ==
    IF cs = <<>> THEN s ELSE RemoveAllIndexed(RemoveIndexed(s, Head(cs)), Tail(cs))

\* remove_widget that also unregisters the variable as edit variable
RemoveVarAndEdit(s, var) ==
    IF s.panicked # NoPanic THEN s
    ELSE
    LET s1 == IF var \in DOMAIN s.var_map
              THEN RemoveAllIndexed([s EXCEPT !.var_map = MapRemove(@, var)],
                                    SetToSeq(s.var_map[var]))
              ELSE s
    IN  IF s1.panicked # NoPanic THEN s1
        ELSE [s1 EXCEPT !.widget_map = MapRemove(@, var),
                        !.solver.edits = MapRemove(@, var)]

\* remove_widget, lines 56-74: one of the widget's variables.  The result
\* does not depend on the order in which the constraint set is iterated.
RemoveVar(s, var) ==
    IF s.panicked # NoPanic THEN s
    ELSE
    LET s1 == IF var \in DOMAIN s.var_map
              THEN RemoveAllIndexed([s EXCEPT !.var_map = MapRemove(@, var)],
                                    SetToSeq(s.var_map[var]))
              ELSE s
    IN  IF s1.panicked # NoPanic THEN s1
        ELSE [s1 EXCEPT !.widget_map = MapRemove(@, var)]

RECURSIVE RemoveVars(_, _)
RemoveVars(s, vs) ==
    IF vs = <<>> THEN s ELSE RemoveVars(RemoveVar(s, Head(vs)), Tail(vs))

\* the variables remove_widget iterates over, in order
RemovedVars(widget_vars) ==
    << widget_vars.left, widget_vars.top, widget_vars.right, widget_vars.bottom >>

\* remove_widget
RemoveWidget(s, widget_vars) ==
    CheckChanges(RemoveVars(s, RemovedVars(widget_vars)))

\* update_solver with the closure of Ui::set_root: register the root's
\* right and bottom as edit variables
SetRootEdits(s) ==
    LET s1 == SolverAddEditVariable(s, Var(Root, "right"))
        s2 == IF s1.panicked # NoPanic THEN s1
              ELSE SolverAddEditVariable(s1, Var(Root, "bottom"))
    IN  CheckChanges(s2)

\* update_solver with the closure of Ui::window_resized: suggest the window
\* dimensions for the root's right and bottom
WindowResized(s, width, height) ==
    LET s1 == SolverSuggestValue(s, Var(Root, "right"), width)
        s2 == IF s1.panicked # NoPanic THEN s1
              ELSE SolverSuggestValue(s1, Var(Root, "bottom"), height)
    IN  CheckChanges(s2)


-----------------------------------------------------------------------------
(* Ui: the widget graph, attaching, detaching and event dispatch.          *)
(* An operation works on a record of the store, the graph, the redraw      *)
(* counter and the list of what it did so far.                             *)

None == "none"

\* WidgetGraph::get_widget / get_widget_container: Some for an attached id
InGraph(g, id) == id \in DOMAIN g.nodes

\* WidgetGraph::parent
Parent(g, id) == IF InGraph(g, id) THEN g.nodes[id].parent ELSE None

\* the children of a widget in the order of their insertion
ChildList(g, id) == IF InGraph(g, id) THEN g.nodes[id].children ELSE <<>>

RECURSIVE Reverse(_)
Reverse(q) == IF q = <<>> THEN <<>> ELSE Append(Reverse(Tail(q)), Head(q))

\* WidgetGraph::children as iterated: the neighbours of the node, which
\* come in reverse order of insertion (draw_node, lines 132-135)
Children(g, id) == Reverse(ChildList(g, id))

\* WidgetGraph::dfs from id: the node, then the subtrees of its children in
\* the order of their insertion
RECURSIVE Dfs(_, _)
RECURSIVE DfsAll(_, _)
Dfs(g, id) == <<id>> \o DfsAll(g, ChildList(g, id))
DfsAll(g, ids) ==
    IF ids = <<>> THEN <<>> ELSE Dfs(g, Head(ids)) \o DfsAll(g, Tail(ids))

\* the cached bounds of a widget that no layout change has reached
ZeroRect == [left |-> 0, top |-> 0, width |-> 0, height |-> 0]

\* WidgetGraph::add_widget: the node is inserted and appended to the child
\* list of its parent, when it has one that is attached
GraphAddWidget(g, id, bound_children, parent_id) ==
    LET has_parent == parent_id # None /\ InGraph(g, parent_id)
        node == [parent |-> IF has_parent THEN parent_id ELSE None,
                 children |-> <<>>,
                 bound_children |-> bound_children,
                 has_updated |-> FALSE,
                 bounds |-> ZeroRect]
        linked == IF has_parent
                  THEN [g.nodes EXCEPT ![parent_id].children = Append(@, id)]
                  ELSE g.nodes
    IN  [g EXCEPT !.nodes = MapPut(linked, id, node)]

\* WidgetGraph::remove_widget: the node leaves the graph and the child list
\* of its parent; its children stay, with no parent
GraphRemoveWidget(g, id) ==
    LET rest == MapRemove(g.nodes, id)
    IN  [g EXCEPT !.nodes =
            [n \in DOMAIN rest |->
                [rest[n] EXCEPT !.parent = IF @ = id THEN None ELSE @,
                                !.children = SeqWithout(@, id)]]]

Did(u, what, id) == [u EXCEPT !.steps = Append(@, <<what, id>>)]

\* layout().bound_by(&parent.layout): the new widget's box inside the parent's
BoundBy(id, parent_id) ==
    << Cn("BoundLeft", id, parent_id), Cn("BoundTop", id, parent_id),
       Cn("BoundRight", id, parent_id), Cn("BoundBottom", id, parent_id) >>

\* widget.build() of a builder: [id, bound_children, constraints, children]
Builder(id, bound_children, constraints, children) ==
    [id |-> id, bound_children |-> bound_children,
     constraints |-> constraints, children |-> children]

\* Ui::add_widget, lines 153-163, for a widget built with these constraints
AttachBuilt(u, widget, constraints, parent_id) ==
    LET id == widget.id
        s == AddWidget(u.store, id, [edit_vars |-> <<>>, constraints |-> constraints])
        u1 == Did([u EXCEPT !.store = s], "solver.add_widget", id)
        u2 == Did([u1 EXCEPT !.graph =
                      GraphAddWidget(@, id, widget.bound_children, parent_id)],
                  "graph.add_widget", id)
        u3 == Did(u2, "push WidgetAttachedEvent", id)
        u4 == IF parent_id # None THEN Did(u3, "push ChildAttachedEvent", parent_id)
              ELSE u3
    IN  IF s.panicked # NoPanic THEN u1
        ELSE [u4 EXCEPT !.redraw = 2]

\* Ui::add_widget: the widget, then the children of its builder under it
RECURSIVE UiAddWidget(_, _, _)
RECURSIVE UiAddWidgets(_, _, _)
RECURSIVE UiAddWidgetAlwaysBound(_, _, _)
RECURSIVE UiAddWidgetChildrenFirst(_, _, _)

\* Ui::add_widget that attaches the children of the builder before the widget
UiAddWidgetChildrenFirst(u, widget, parent_id) ==
    IF u.store.panicked # NoPanic THEN u
    ELSE
    LET bound == /\ parent_id # None
                 /\ InGraph(u.graph, parent_id)
                 /\ u.graph.nodes[parent_id].bound_children
        constraints == IF bound
                       THEN widget.constraints \o BoundBy(widget.id, parent_id)
                       ELSE widget.constraints
        u1 == UiAddWidgets(u, widget.children, widget.id)
    IN  IF u1.store.panicked # NoPanic THEN u1
        ELSE AttachBuilt(u1, widget, constraints, parent_id)

\* Ui::add_widget that binds the widget to every attached parent
UiAddWidgetAlwaysBound(u, widget, parent_id) ==
    IF u.store.panicked # NoPanic THEN u
    ELSE
    LET bound == parent_id # None /\ InGraph(u.graph, parent_id)
        constraints == IF bound
                       THEN widget.constraints \o BoundBy(widget.id, parent_id)
                       ELSE widget.constraints
    IN  UiAddWidgets(AttachBuilt(u, widget, constraints, parent_id),
                     widget.children, widget.id)

UiAddWidget(u, widget, parent_id) ==
    IF u.store.panicked # NoPanic THEN u
    ELSE
    LET bound == /\ parent_id # None
                 /\ InGraph(u.graph, parent_id)
                 /\ u.graph.nodes[parent_id].bound_children
        constraints == IF bound
                       THEN widget.constraints \o BoundBy(widget.id, parent_id)
                       ELSE widget.constraints
    IN  UiAddWidgets(AttachBuilt(u, widget, constraints, parent_id),
                     widget.children, widget.id)
UiAddWidgets(u, children, id) ==
    IF children = <<>> THEN u
    ELSE UiAddWidgets(UiAddWidget(u, Head(children), id), Tail(children), id)

\* remove_widget of the store for every widget of a list
RECURSIVE RemoveEach(_, _)
RemoveEach(s, ids) ==
    IF ids = <<>> THEN s
    ELSE RemoveEach(RemoveWidget(s, LayoutVars(Head(ids))), Tail(ids))

\* Ui::remove_widget that purges the constraints of the widget's subtree
UiRemoveWidgetCascade(u, widget_id) ==
    LET u1 == Did(u, "push WidgetDetachedEvent", widget_id)
    IN  IF ~InGraph(u1.graph, widget_id) THEN u1
        ELSE
        LET u2 == Did([u1 EXCEPT !.graph = GraphRemoveWidget(@, widget_id),
                                 !.redraw = 2],
                      "graph.remove_widget", widget_id)
        IN  Did([u2 EXCEPT !.store = RemoveEach(@, Dfs(u.graph, widget_id))],
                "solver.remove_widget", widget_id)

\* Ui::remove_widget
UiRemoveWidget(u, widget_id) ==
    LET u1 == Did(u, "push WidgetDetachedEvent", widget_id)
    IN  IF ~InGraph(u1.graph, widget_id) THEN u1
        ELSE
        LET u2 == Did([u1 EXCEPT !.graph = GraphRemoveWidget(@, widget_id),
                                 !.redraw = 2],
                      "graph.remove_widget", widget_id)
        IN  Did([u2 EXCEPT !.store = RemoveWidget(@, LayoutVars(widget_id))],
                "solver.remove_widget", widget_id)

\* Ui::set_root: the root's edit variables, root_id, then add_widget
UiSetRoot(u, root_widget) ==
    LET s == SetRootEdits(u.store)
        u1 == Did([u EXCEPT !.store = s], "solver.update_solver", root_widget.id)
    IN  IF s.panicked # NoPanic THEN u1
        ELSE UiAddWidget([u1 EXCEPT !.graph.root_id = root_widget.id],
                         root_widget, None)

\* WidgetContainer::trigger_event: the widget's handlers run; they may set
\* has_updated and report handled, as the outcome says for the widget
TriggerEvent(u, widget_id, outcome) ==
    LET u1 == Did(u, "trigger_event", widget_id)
        u2 == IF widget_id \in outcome.dirty
              THEN Did([u1 EXCEPT !.graph.nodes[widget_id].has_updated = TRUE],
                       "has_updated", widget_id)
              ELSE u1
        u3 == IF widget_id \in outcome.handled
              THEN Did(u2, "handled", widget_id)
              ELSE u2
    IN  [u3 EXCEPT !.handled = widget_id \in outcome.handled]

\* Ui::handle_widget_event that unwraps the widget's container
HandleWidgetEventUnwrap(u, widget_id, outcome) ==
    IF InGraph(u.graph, widget_id)
    THEN LET u1 == TriggerEvent(u, widget_id, outcome)
         IN  IF u1.graph.nodes[widget_id].has_updated
             THEN [u1 EXCEPT !.redraw = 2,
                             !.graph.nodes[widget_id].has_updated = FALSE]
             ELSE u1
    ELSE [u EXCEPT !.store = Panic(@, "NoneUnwrap")]

\* Ui::handle_widget_event that leaves the redraw counter and the flag alone
HandleWidgetEventNoRedraw(u, widget_id, outcome) ==
    IF InGraph(u.graph, widget_id)
    THEN TriggerEvent(u, widget_id, outcome)
    ELSE [u EXCEPT !.handled = FALSE]

\* Ui::handle_widget_event: a widget that has updated sets redraw to 2 and
\* its flag is cleared; an id that is not in the graph is not handled
HandleWidgetEvent(u, widget_id, outcome) ==
    IF InGraph(u.graph, widget_id)
    THEN LET u1 == TriggerEvent(u, widget_id, outcome)
         IN  IF u1.graph.nodes[widget_id].has_updated
             THEN [u1 EXCEPT !.redraw = 2,
                             !.graph.nodes[widget_id].has_updated = FALSE]
             ELSE u1
    ELSE [u EXCEPT !.handled = FALSE]

\* Target::SubTree that stops at the first widget that reports handled
RECURSIVE HandleEachUntilHandled(_, _, _)
HandleEachUntilHandled(u, ids, outcome) ==
    IF ids = <<>> THEN u
    ELSE LET u1 == HandleWidgetEvent(u, Head(ids), outcome)
         IN  IF u1.handled THEN u1
             ELSE HandleEachUntilHandled(u1, Tail(ids), outcome)

\* Target::SubTree, lines 217-219: every id the dfs yields
RECURSIVE HandleEach(_, _, _)
HandleEach(u, ids, outcome) ==
    IF ids = <<>> THEN u
    ELSE HandleEach(HandleWidgetEvent(u, Head(ids), outcome), Tail(ids), outcome)

\* Target::BubbleUp that goes on to the parent whatever the widget reports
RECURSIVE BubbleUpAll(_, _, _)
BubbleUpAll(u, id, outcome) ==
    LET u1 == HandleWidgetEvent(u, id, outcome)
        parent == Parent(u1.graph, id)
    IN  IF parent = None THEN u1 ELSE BubbleUpAll(u1, parent, outcome)

\* Target::BubbleUp, lines 223-227
RECURSIVE BubbleUp(_, _, _)
BubbleUp(u, id, outcome) ==
    LET u1 == HandleWidgetEvent(u, id, outcome)
        maybe_id == IF u1.handled THEN None ELSE Parent(u1.graph, id)
    IN  IF maybe_id = None THEN u1 ELSE BubbleUp(u1, maybe_id, outcome)

\* Ui::handle_event; an address is [mode, id]
HandleEvent(u, address, outcome) ==
    LET id == address.id
    IN  CASE address.mode = "Widget" -> HandleWidgetEvent(u, id, outcome)
          [] address.mode = "Child" ->
                IF Children(u.graph, id) # <<>>
                THEN HandleWidgetEvent(u, Head(Children(u.graph, id)), outcome)
                ELSE u
          [] address.mode = "SubTree" -> HandleEach(u, Dfs(u.graph, id), outcome)
          [] address.mode = "BubbleUp" -> BubbleUp(u, id, outcome)
          [] OTHER -> u

\* Ui::draw, lines 108-118: the outline of every widget of the root's subtree
RECURSIVE DebugOutlines(_, _)
DebugOutlines(u, ids) ==
    IF ids = <<>> THEN u
    ELSE DebugOutlines(Did(u, "draw_rect_outline", Head(ids)), Tail(ids))

\* Ui::draw: draw_node unwraps the root's node; the outlines if asked for
Draw(u) ==
    IF InGraph(u.graph, u.graph.root_id)
    THEN LET u1 == Did(u, "draw", u.graph.root_id)
         IN  IF u.debug_draw_bounds
             THEN DebugOutlines(u1, Dfs(u.graph, u.graph.root_id))
             ELSE u1
    ELSE [u EXCEPT !.store = Panic(@, "NoneUnwrap")]

\* Ui::draw_if_needed that draws and decrements whatever the counter is
DrawIfNeededUnguarded(u) ==
    LET u1 == Draw(u)
    IN  IF u1.store.panicked # NoPanic THEN u1
        ELSE [u1 EXCEPT !.redraw = @ - 1]

\* Ui::draw_if_needed
DrawIfNeeded(u) ==
    IF u.redraw > 0
    THEN LET u1 == Draw(u)
         IN  IF u1.store.panicked # NoPanic THEN u1
             ELSE [u1 EXCEPT !.redraw = @ - 1]
    ELSE u

\* Ui::redraw
Redraw(u) == [u EXCEPT !.redraw = 2]

\* LayoutVars::update_bounds: the value of the widget's left, top, width or
\* height goes into the field of that name
UpdateBounds(widget_id, var, value, bounds) ==
    IF var[1] = widget_id /\ var[2] \in DOMAIN bounds
    THEN [bounds EXCEPT ![var[2]] = value]
    ELSE bounds

\* handle_layout_change that unwraps the widget of every entry
RECURSIVE ApplyChangesUnwrap(_, _)
ApplyChangesUnwrap(u, changes) ==
    IF changes = <<>> \/ u.store.panicked # NoPanic THEN u
    ELSE LET widget_id == Head(changes)[1]
         IN  IF InGraph(u.graph, widget_id)
             THEN ApplyChangesUnwrap(
                      [u EXCEPT !.graph.nodes[widget_id].bounds =
                          UpdateBounds(widget_id, Head(changes)[2], Head(changes)[3], @)],
                      Tail(changes))
             ELSE [u EXCEPT !.store = Panic(@, "NoneUnwrap")]

\* handle_layout_change, lines 140-144: the entries in turn
RECURSIVE ApplyChanges(_, _)
ApplyChanges(u, changes) ==
    IF changes = <<>> THEN u
    ELSE LET widget_id == Head(changes)[1]
         IN  IF InGraph(u.graph, widget_id)
             THEN ApplyChanges(
                      [u EXCEPT !.graph.nodes[widget_id].bounds =
                          UpdateBounds(widget_id, Head(changes)[2], Head(changes)[3], @)],
                      Tail(changes))
             ELSE ApplyChanges(u, Tail(changes))

\* handle_layout_change
HandleLayoutChange(u, changes) == Redraw(ApplyChanges(u, changes))

\* point_inside_rect, the default mouse_over_fn
PointInsideRect(point, bounds) ==
    /\ bounds.left <= point.x /\ point.x < bounds.left + bounds.width
    /\ bounds.top <= point.y /\ point.y < bounds.top + bounds.height

\* Widget::is_mouse_over
IsMouseOver(g, id, point) ==
    InGraph(g, id) /\ PointInsideRect(point, g.nodes[id].bounds)

\* the widgets of a list the point is over, in the order of the list
RECURSIVE MouseOverOf(_, _, _)
MouseOverOf(g, ids, point) ==
    IF ids = <<>> THEN <<>>
    ELSE (IF IsMouseOver(g, Head(ids), point) THEN <<Head(ids)>> ELSE <<>>)
         \o MouseOverOf(g, Tail(ids), point)

\* WidgetGraph::widgets_under_cursor: the widgets the point is over, in
\* reverse depth-first order from the root, the descendant inserted last
\* first
WidgetsUnderCursor(g, point) ==
    MouseOverOf(g, Reverse(Dfs(g, g.root_id)), point)

\* Ui::widget_under_cursor that takes the last widget of the walk
WidgetUnderCursorLast(u, point) ==
    LET walk == WidgetsUnderCursor(u.graph, point)
    IN  IF walk = <<>> THEN None ELSE walk[Len(walk)]

\* Ui::widget_under_cursor: the first widget of the walk
WidgetUnderCursor(u, point) ==
    LET walk == WidgetsUnderCursor(u.graph, point)
    IN  IF walk = <<>> THEN None ELSE Head(walk)

\* Ui::set_debug_draw_bounds
SetDebugDrawBounds(u, flag) ==
    [u EXCEPT !.debug_draw_bounds = flag, !.redraw = 1]

\* Ui::window_resized: get_root, the two suggestions through update_solver,
\* then redraw = 2
UiWindowResized(u, width, height) ==
    IF ~InGraph(u.graph, u.graph.root_id)
    THEN [u EXCEPT !.store = Panic(@, "NoneUnwrap")]
    ELSE LET s == WindowResized(u.store, width, height)
             u1 == Did([u EXCEPT !.store = s], "solver.update_solver", u.graph.root_id)
         IN  IF s.panicked # NoPanic THEN u1
             ELSE [u1 EXCEPT !.redraw = 2]

-----------------------------------------------------------------------------
(* The LimnSolver of src/ui/solver.rs, indexed by widget id: var_map maps  *)
(* a variable to its widget, constraint_map a widget id to the list of the *)
(* constraints it affects.                                                 *)

\* WidgetConstraint::Local(constraint), WidgetConstraint::Relative(constraint, widget_id)
Local(c) == [kind |-> "Local", constraint |-> c, widget_id |-> c.w]
Relative(c, widget_id) == [kind |-> "Relative", constraint |-> c, widget_id |-> widget_id]

\* check_changes of src/ui/solver.rs: the widget of a variable is var_map's
ByIdCheckChanges(s) ==
    IF s.panicked # NoPanic THEN s
    ELSE
    LET changes == FetchChanges(s)
        s1 == [s EXCEPT !.solver.vals = [v \in Vars |-> Value(s.solver, v)]]
        wchanges == {<<s.var_map[ch[1]], ch[1], ch[2]>> :
                        ch \in {x \in changes : x[1] \in DOMAIN s.var_map}}
    IN  IF Cardinality(changes) > 0
        THEN [s1 EXCEPT !.events = Append(@, wchanges)]
        ELSE s1

\* add_widget, lines 42-57: one constraint of the widget
ByIdApplyConstraint(s, id, wc) ==
    IF s.panicked # NoPanic THEN s
    ELSE
    LET c == wc.constraint
        s1 == IF wc.kind = "Relative"
              THEN LET s0 == IF wc.widget_id \notin DOMAIN s.constraint_map
                             THEN [s EXCEPT !.constraint_map = MapPut(@, wc.widget_id, <<>>)]
                             ELSE s
                   IN  IF id \in DOMAIN s0.constraint_map
                       THEN [s0 EXCEPT !.constraint_map[id] = Append(@, c)]
                       ELSE s0
              ELSE s
        s2 == IF id \in DOMAIN s1.constraint_map
              THEN [s1 EXCEPT !.constraint_map[id] = Append(@, c)]
              ELSE s1
    IN  AddConstraint(s2, c)

RECURSIVE ByIdApplyConstraints(_, _, _)
ByIdApplyConstraints(s, id, wcs) ==
    IF wcs = <<>> THEN s
    ELSE ByIdApplyConstraints(ByIdApplyConstraint(s, id, Head(wcs)), id, Tail(wcs))

\* add_widget of src/ui/solver.rs
ByIdAddWidget(s, id, constraints) ==
    LET s1 == ByIdApplyConstraints([s EXCEPT !.constraint_map = MapPut(@, id, <<>>)],
                                   id, constraints)
        lv == LayoutVars(id)
        vm1 == MapPut(s1.var_map, lv.left, id)
        vm2 == MapPut(vm1, lv.top, id)
        vm3 == MapPut(vm2, lv.right, id)
        vm4 == MapPut(vm3, lv.bottom, id)
    IN  IF s1.panicked # NoPanic THEN s1
        ELSE LET s2 == ByIdCheckChanges([s1 EXCEPT !.var_map = vm4])
             IN  IF DebugName(id) = "none" THEN s2
                 ELSE [s2 EXCEPT !.VAR_NAMES =
                          AddDebugVarNames(@, id, DebugName(id),
                                           <<"left", "top", "right", "bottom">>)]

\* remove_widget, lines 77-82: the constraints of the widget's list
RECURSIVE ByIdRemoveListed(_, _)
ByIdRemoveListed(s, constraint_list) ==
    IF constraint_list = <<>> \/ s.panicked # NoPanic THEN s
    ELSE LET c == Head(constraint_list)
             s1 == IF HasConstraint(s, c)
                   THEN SolverRemoveConstraint(
                            [s EXCEPT !.debug_constraint_list = SeqWithout(@, c)], c)
                   ELSE s
         IN  ByIdRemoveListed(s1, Tail(constraint_list))

\* remove_widget of src/ui/solver.rs
ByIdRemoveWidget(s, widget_id) ==
    LET s1 == IF widget_id \in DOMAIN s.constraint_map
              THEN ByIdRemoveListed(s, s.constraint_map[widget_id])
              ELSE s
    IN  IF s1.panicked # NoPanic THEN s1
        ELSE ByIdCheckChanges([s1 EXCEPT !.constraint_map = MapRemove(@, widget_id)])

\* update_solver of src/ui/solver.rs with a closure that registers the
\* root's right as edit variable when it is not yet, and suggests a width
ByIdUpdateSolver(s, width) ==
    LET v == Var(Root, "right")
        s1 == IF HasEditVariable(s, v) THEN s ELSE SolverAddEditVariable(s, v)
        s2 == IF s1.panicked # NoPanic THEN s1 ELSE SolverSuggestValue(s1, v, width)
    IN  ByIdCheckChanges(s2)

-----------------------------------------------------------------------------
(* The threads that use the debug names. *)

Threads == 1..MaxThreads
NoThread == 0

\* VAR_NAMES.lock(): the caller holds the Mutex; it waits while another does
LockVarNames(l, t) == t

\* the guard `names` that is never dropped
KeepGuard(l, t) == l

\* the guard `names` goes out of scope when the function returns
DropGuard(l, t) == NoThread

\* add_widget, lines 44-51: the calls of add_debug_var_name for a widget
\* with a debug name
NameCalls(w, debug_name) ==
    [i \in 1..Len(NamedFields) |->
        [fn |-> "add_debug_var_name", var |-> Var(w, NamedFields[i]),
         name |-> DebugVarName(debug_name, NamedFields[i])]]

\* fmt_expression, lines 177-200: a call of fmt_variable per term
FmtCalls(c) ==
    [i \in 1..Len(Terms(c)) |->
        [fn |-> "fmt_variable", var |-> Terms(c)[i], name |-> <<>>]]

\* a thread outside add_debug_var_name and fmt_variable with no call left
Idle == [at |-> "idle", calls |-> <<>>, out |-> <<>>]

-----------------------------------------------------------------------------
(* The state machine. *)

\* the store as the record the operations work on: an operation starts with
\* no event sent and no solver.remove_constraint call made (remove_calls)
Cur ==
    [solver |-> solver, var_map |-> var_map, constraint_map |-> constraint_map,
     widget_map |-> widget_map, debug_constraint_list |-> debug_constraint_list,
     events |-> <<>>, panicked |-> panicked, remove_calls |-> <<>>,
     VAR_NAMES |-> VAR_NAMES]

Store(s) ==
    /\ solver' = s.solver
    /\ var_map' = s.var_map
    /\ constraint_map' = s.constraint_map
    /\ widget_map' = s.widget_map
    /\ debug_constraint_list' = s.debug_constraint_list
    /\ events' = s.events
    /\ panicked' = s.panicked
    /\ VAR_NAMES' = s.VAR_NAMES
    /\ UNCHANGED <<lock, pc>>

\* LimnSolver::new
Init ==
    /\ solver = [cns |-> {}, edits |-> EmptyMap, vals |-> [v \in Vars |-> 0]]
    /\ var_map = EmptyMap
    /\ constraint_map = EmptyMap
    /\ widget_map = EmptyMap
    /\ debug_constraint_list = <<>>
    /\ events = <<>>
    /\ panicked = NoPanic
    /\ widgets = [w \in UiWidgets |-> "new"]
    /\ suggested = EmptyMap
    /\ last_op = [op |-> "new", w |-> Root]
    /\ graph = [root_id |-> None, nodes |-> EmptyMap]
    /\ redraw = 2
    /\ debug_draw_bounds = FALSE
    /\ steps = <<>>
    /\ VAR_NAMES = EmptyMap
    /\ lock = NoThread
    /\ pc = [t \in Threads |-> Idle]

\* the LayoutUpdate values widget w hands over: suggestions for its right
\* as edit variable, and distinct constraints of the widget (local, or
\* relative to another) other than those the root's builder holds at set_root
LayoutUpdatesOf(w) ==
    [edit_vars : SeqsUpTo({Var(w, "right")} \X (1..MaxVal), MaxEdits),
     constraints : DistinctSeqsUpTo({c \in Catalogue : c.w = w} \ SeqRange(RootBuild),
                                    MaxBatch)]

LayoutUpdates == [w \in Widgets |-> LayoutUpdatesOf(w)]

\* the caller's latest suggestion per edit variable after a list of them
RECURSIVE NoteSuggested(_, _)
NoteSuggested(m, evs) ==
    IF evs = <<>> THEN m
    ELSE NoteSuggested(MapPut(m, Head(evs)[1], Head(evs)[2]), Tail(evs))

\* an operation starts when no panic has ended the program and set_root is
\* not under way
Ready ==
    /\ panicked = NoPanic
    /\ widgets[Root] # "set_root"

\* no constraint of the list has been handed over MaxAdds times
Fresh(cs) ==
    \A i \in 1..Len(cs) :
        cs[i] \in DOMAIN constraint_map
            => Len(constraint_map[cs[i]]) < MaxAdds * Len(Terms(cs[i]))

AddWidgetOp(w, lu) ==
    /\ Ready
    /\ w # Root
    /\ widgets[w] = "new"
    /\ Fresh(lu.constraints)
    /\ \E s \in {AddWidget(Cur, w, lu)} : Store(s)
    /\ widgets' = [widgets EXCEPT ![w] = "live"]
    /\ suggested' = NoteSuggested(suggested, lu.edit_vars)
    /\ last_op' = [op |-> "add_widget", w |-> w]
    /\ UNCHANGED uivars

UpdateFromBuilderOp(w, lu) ==
    /\ Ready
    /\ widgets[w] = "live"
    /\ Fresh(lu.constraints)
    /\ \E s \in {UpdateFromBuilder(Cur, lu)} : Store(s)
    /\ suggested' = NoteSuggested(suggested, lu.edit_vars)
    /\ last_op' = [op |-> "update_from_builder", w |-> w]
    /\ UNCHANGED <<widgets, uivars>>

RemoveWidgetOp(w) ==
    /\ Ready
    /\ widgets[w] \in {"live", "removed"}
    /\ \E s \in {RemoveWidget(Cur, LayoutVars(w))} : Store(s)
    /\ widgets' = [widgets EXCEPT ![w] = "removed"]
    /\ last_op' = [op |-> "remove_widget", w |-> w]
    /\ UNCHANGED <<suggested, uivars>>

\* Ui::set_root, lines 66-71: update_solver registers the root's edit variables
SetRootEditsOp ==
    /\ Ready
    /\ widgets[Root] = "new"
    /\ \E s \in {SetRootEdits(Cur)} : Store(s)
    /\ widgets' = [widgets EXCEPT ![Root] = "set_root"]
    /\ last_op' = [op |-> "set_root", w |-> Root]
    /\ UNCHANGED <<suggested, uivars>>

\* Ui::set_root, line 73: add_widget hands the root and its constraints over
AddRootOp ==
    /\ panicked = NoPanic
    /\ widgets[Root] = "set_root"
    /\ \E s \in {AddWidget(Cur, Root, [edit_vars |-> <<>>, constraints |-> RootBuild])} : Store(s)
    /\ widgets' = [widgets EXCEPT ![Root] = "live"]
    /\ last_op' = [op |-> "add_widget", w |-> Root]
    /\ UNCHANGED <<suggested, uivars>>

\* Ui::window_resized, lines 85-88
WindowResizedOp(width, height) ==
    /\ Ready
    /\ widgets[Root] = "live"
    /\ \E s \in {WindowResized(Cur, width, height)} : Store(s)
    /\ suggested' = NoteSuggested(suggested, << <<Var(Root, "right"), width>>,
                                               <<Var(Root, "bottom"), height>> >>)
    /\ last_op' = [op |-> "window_resized", w |-> Root]
    /\ UNCHANGED <<widgets, uivars>>

Next ==
    \/ \E w \in Widgets : \E lu \in LayoutUpdates[w] : AddWidgetOp(w, lu)
    \/ \E w \in Widgets : \E lu \in LayoutUpdates[w] : UpdateFromBuilderOp(w, lu)
    \/ \E w \in Widgets : RemoveWidgetOp(w)
    \/ SetRootEditsOp
    \/ AddRootOp
    \/ \E width \in 1..MaxVal, height \in 1..MaxVal : WindowResizedOp(width, height)

Spec == Init /\ [][Next]_vars

-----------------------------------------------------------------------------
(* The Ui as a state machine: widgets are attached and detached through    *)
(* the Ui, events are dispatched and frames drawn.                         *)

\* the Ui as the record its operations work on
UiCur ==
    [store |-> Cur, graph |-> graph, redraw |-> redraw,
     debug_draw_bounds |-> debug_draw_bounds, steps |-> <<>>, handled |-> FALSE]

UiStore(u) ==
    /\ \E s \in {u.store} : Store(s)
    /\ graph' = u.graph
    /\ redraw' = u.redraw
    /\ debug_draw_bounds' = u.debug_draw_bounds
    /\ steps' = u.steps

\* the widget tree the callers build: the child and the sibling under the
\* root, the grandchild under the child
IntendedParent(w) ==
    CASE w = Child -> Root
      [] w = Sibling -> Root
      [] w = Grand -> Child
      [] OTHER -> None

GrandBuilder == Builder(Grand, FALSE, <<>>, <<>>)
SiblingBuilder == Builder(Sibling, FALSE, <<>>, <<>>)

\* the builders handed to Ui::add_widget: the child with its width
\* definition, with or without bound_children, alone or with the grandchild
\* as its builder's child; the grandchild; the sibling
Builders ==
    {Builder(Child, b, << Cn("WidthDef", Child, Child) >>, ch) :
        b \in BOOLEAN, ch \in {<<>>, <<GrandBuilder>>}}
    \cup {GrandBuilder, SiblingBuilder}

\* the ids of a builder and of the builders under it
RECURSIVE BuilderIds(_)
BuilderIds(widget) ==
    {widget.id} \cup
    UNION {BuilderIds(widget.children[i]) : i \in 1..Len(widget.children)}

\* the widgets are attached now, or were detached
Attached(g, ids, was) ==
    [w \in UiWidgets |->
        IF w \in ids /\ InGraph(g, w) THEN "live"
        ELSE IF was[w] = "live" /\ ~InGraph(g, w) THEN "removed"
        ELSE was[w]]

UiSetRootOp(bound_children) ==
    /\ panicked = NoPanic
    /\ widgets[Root] = "new"
    /\ \E u \in {UiSetRoot(UiCur, Builder(Root, bound_children, RootBuild, <<>>))} :
          /\ UiStore(u)
          /\ widgets' = Attached(u.graph, {Root}, widgets)
    /\ last_op' = [op |-> "Ui::set_root", w |-> Root]
    /\ UNCHANGED suggested

UiAddWidgetOp(widget, parent_id) ==
    /\ panicked = NoPanic
    /\ \A w \in BuilderIds(widget) : widgets[w] = "new"
    /\ \E u \in {UiAddWidget(UiCur, widget, parent_id)} :
          /\ UiStore(u)
          /\ widgets' = Attached(u.graph, BuilderIds(widget), widgets)
    /\ last_op' = [op |-> "Ui::add_widget", w |-> widget.id]
    /\ UNCHANGED suggested

UiRemoveWidgetOp(widget_id) ==
    /\ panicked = NoPanic
    /\ \E u \in {UiRemoveWidget(UiCur, widget_id)} :
          /\ UiStore(u)
          /\ widgets' = Attached(u.graph, {}, widgets)
    /\ last_op' = [op |-> "Ui::remove_widget", w |-> widget_id]
    /\ UNCHANGED suggested

NextUi ==
    \/ \E b \in BOOLEAN : UiSetRootOp(b)
    \/ \E widget \in Builders :
          \E parent_id \in {None, IntendedParent(widget.id)} :
              UiAddWidgetOp(widget, parent_id)
    \/ \E widget_id \in UiWidgets : UiRemoveWidgetOp(widget_id)

SpecUi == Init /\ [][NextUi]_vars

-----------------------------------------------------------------------------
(* Event dispatch: the widget tree is built and taken apart through the Ui *)
(* with builders that carry no constraints, events are dispatched to it    *)
(* and frames are drawn.                                                   *)

ChildBuilder == Builder(Child, FALSE, <<>>, <<>>)

PlainBuilders == {ChildBuilder, SiblingBuilder, GrandBuilder}

\* the addresses of Ui::handle_event: the four widget addresses and
\* Target::Ui for the remaining ones
Modes == {"Widget", "Child", "SubTree", "BubbleUp"}
Addresses == [mode : Modes, id : UiWidgets] \cup {[mode |-> "Ui", id |-> Root]}

\* what trigger_event does per widget for the event dispatched: the widgets
\* whose handlers report handled (none, the child, the root or all), and
\* the one, if any, whose handler sets has_updated (the child or the root)
Outcomes ==
    [handled : {{}, {Child}, {Root}, UiWidgets},
     dirty : {{}, {Child}, {Root}}]

HandleEventOp(address, outcome) ==
    /\ panicked = NoPanic
    /\ \E u \in {HandleEvent(UiCur, address, outcome)} : UiStore(u)
    /\ last_op' = [op |-> address.mode, w |-> address.id]
    /\ UNCHANGED <<widgets, suggested>>

DrawIfNeededOp ==
    /\ panicked = NoPanic
    /\ \E u \in {DrawIfNeeded(UiCur)} : UiStore(u)
    /\ last_op' = [op |-> "Ui::draw_if_needed", w |-> Root]
    /\ UNCHANGED <<widgets, suggested>>

NextDispatch ==
    \/ UiSetRootOp(FALSE)
    \/ \E widget \in PlainBuilders : UiAddWidgetOp(widget, IntendedParent(widget.id))
    \/ \E widget_id \in UiWidgets : UiRemoveWidgetOp(widget_id)
    \/ \E address \in Addresses : \E outcome \in Outcomes : HandleEventOp(address, outcome)
    \/ DrawIfNeededOp

SpecDispatch == Init /\ [][NextDispatch]_vars

-----------------------------------------------------------------------------
(* Frames: a root and a child are attached and detached, events are        *)
(* delivered to them, the window is resized, the debug outlines are        *)
(* switched and frames are drawn.                                          *)

SetDebugDrawBoundsOp(flag) ==
    /\ panicked = NoPanic
    /\ \E u \in {SetDebugDrawBounds(UiCur, flag)} : UiStore(u)
    /\ last_op' = [op |-> "Ui::set_debug_draw_bounds", w |-> Root]
    /\ UNCHANGED <<widgets, suggested>>

RedrawOp ==
    /\ panicked = NoPanic
    /\ \E u \in {Redraw(UiCur)} : UiStore(u)
    /\ last_op' = [op |-> "Ui::redraw", w |-> Root]
    /\ UNCHANGED <<widgets, suggested>>

UiWindowResizedOp(width, height) ==
    /\ panicked = NoPanic
    /\ \E u \in {UiWindowResized(UiCur, width, height)} : UiStore(u)
    /\ suggested' = IF panicked' = NoPanic
                    THEN NoteSuggested(suggested, << <<Var(Root, "right"), width>>,
                                                    <<Var(Root, "bottom"), height>> >>)
                    ELSE suggested
    /\ last_op' = [op |-> "Ui::window_resized", w |-> Root]
    /\ UNCHANGED widgets

\* the events delivered: to the root or the child, whose handler may set
\* has_updated
FrameAddresses == [mode : {"Widget"}, id : {Root, Child}]
FrameOutcomes == [handled : {{}}, dirty : {{}, {Child}, {Root}}]

NextFrame ==
    \/ UiSetRootOp(FALSE)
    \/ UiAddWidgetOp(ChildBuilder, Root)
    \/ \E widget_id \in {Root, Child} : UiRemoveWidgetOp(widget_id)
    \/ \E address \in FrameAddresses : \E outcome \in FrameOutcomes :
          HandleEventOp(address, outcome)
    \/ DrawIfNeededOp
    \/ \E flag \in BOOLEAN : SetDebugDrawBoundsOp(flag)
    \/ RedrawOp
    \/ \E width \in 1..MaxVal, height \in 1..MaxVal : UiWindowResizedOp(width, height)

SpecFrame == Init /\ [][NextFrame]_vars

-----------------------------------------------------------------------------
(* Layout changes: the tree is built and taken apart, LayoutChanged        *)
(* batches are handled and frames are drawn.                               *)

\* the rectangles the layouts resolve to: the unit square at x = 0 or 1
UnitAt(x) == [left |-> x, top |-> 0, width |-> 1, height |-> 1]
Rects == {UnitAt(0), UnitAt(1)}

\* the entries of a batch that gives widget w the rectangle r
RectBatch(w, r) ==
    << <<w, Var(w, "left"), r.left>>, <<w, Var(w, "top"), r.top>>,
       <<w, Var(w, "width"), r.width>>, <<w, Var(w, "height"), r.height>> >>

\* the LayoutChanged batches: empty, about one widget, or about two
LayoutBatches ==
    {<<>>}
    \cup {RectBatch(w, r) : w \in UiWidgets, r \in Rects}
    \cup {RectBatch(w, r) \o RectBatch(o, q) :
            w \in {Child}, o \in {Root, Sibling}, r \in Rects, q \in Rects}

HandleLayoutChangeOp(changes) ==
    /\ panicked = NoPanic
    /\ \E u \in {HandleLayoutChange(UiCur, changes)} : UiStore(u)
    /\ last_op' = [op |-> "handle_layout_change",
                   w |-> IF changes = <<>> THEN None ELSE changes[1][1]]
    /\ UNCHANGED <<widgets, suggested>>

NextLayout ==
    \/ UiSetRootOp(FALSE)
    \/ \E widget \in PlainBuilders : UiAddWidgetOp(widget, IntendedParent(widget.id))
    \/ \E widget_id \in UiWidgets : UiRemoveWidgetOp(widget_id)
    \/ \E changes \in LayoutBatches : HandleLayoutChangeOp(changes)
    \/ DrawIfNeededOp

SpecLayout == Init /\ [][NextLayout]_vars

-----------------------------------------------------------------------------
(* The debug names under threads: each thread registers the names of a     *)
(* widget as add_widget does, or formats a constraint as the dump does;    *)
(* a call of add_debug_var_name or fmt_variable takes the lock, reads or   *)
(* writes the map and drops the guard when it returns.                     *)

uistorevars ==
    <<solver, var_map, constraint_map, widget_map, debug_constraint_list,
      events, panicked, widgets, suggested, last_op, graph, redraw,
      debug_draw_bounds, steps>>

\* the widgets named and the constraints formatted
NamedWidgets == {Root, Child}
Formatted == {Cn("PinLeft", Root, Root), Cn("AlignLeft", Child, Root)}

\* a thread enters add_widget's block of add_debug_var_name calls
AddWidgetNamesStart(t, w) ==
    /\ pc[t].at = "idle"
    /\ pc' = [pc EXCEPT ![t] = [at |-> "lock", calls |-> NameCalls(w, w), out |-> <<>>]]
    /\ UNCHANGED <<VAR_NAMES, lock, uistorevars>>

\* a thread enters fmt_constraint
FmtConstraintStart(t, c) ==
    /\ pc[t].at = "idle"
    /\ pc' = [pc EXCEPT ![t] = [at |-> "lock", calls |-> FmtCalls(c), out |-> <<>>]]
    /\ UNCHANGED <<VAR_NAMES, lock, uistorevars>>

\* VAR_NAMES.lock().unwrap() of either function
LockStep(t) ==
    /\ pc[t].at = "lock"
    /\ lock = NoThread
    /\ lock' = LockVarNames(lock, t)
    /\ pc' = [pc EXCEPT ![t].at = "access"]
    /\ UNCHANGED <<VAR_NAMES, uistorevars>>

\* names.insert of add_debug_var_name, names.get of fmt_variable
AccessStep(t) ==
    /\ pc[t].at = "access"
    /\ LET call == Head(pc[t].calls)
       IN  IF call.fn = "add_debug_var_name"
           THEN /\ VAR_NAMES' = AddDebugVarName(VAR_NAMES, call.var, call.name)
                /\ pc' = [pc EXCEPT ![t].at = "drop"]
           ELSE /\ VAR_NAMES' = VAR_NAMES
                /\ pc' = [pc EXCEPT ![t].at = "drop",
                                    ![t].out = Append(@, FmtVariable(VAR_NAMES, call.var))]
    /\ UNCHANGED <<lock, uistorevars>>

\* the function returns: the guard is dropped, the next call follows
DropStep(t) ==
    /\ pc[t].at = "drop"
    /\ lock' = DropGuard(lock, t)
    /\ pc' = [pc EXCEPT ![t].calls = Tail(@),
                        ![t].at = IF Tail(pc[t].calls) = <<>> THEN "idle" ELSE "lock"]
    /\ UNCHANGED <<VAR_NAMES, uistorevars>>

NextNames ==
    \/ \E t \in Threads : \E w \in NamedWidgets : AddWidgetNamesStart(t, w)
    \/ \E t \in Threads : \E c \in Formatted : FmtConstraintStart(t, c)
    \/ \E t \in Threads : LockStep(t)
    \/ \E t \in Threads : AccessStep(t)
    \/ \E t \in Threads : DropStep(t)

SpecNames == Init /\ [][NextNames]_vars

-----------------------------------------------------------------------------
(* The widget-id-indexed store as a state machine: var_map and             *)
(* constraint_map hold its maps, widget_map stays empty.                   *)

\* the constraints a widget's builder hands over: each one local, or
\* relative to the other widget it names
ByIdCatalogue == Catalogue \cup {Cn("AlignLeft", Sibling, Root)}
ByIdWidgets == {Root, Child, Sibling}
WidgetConstraintOf(c) == IF c.o = c.w THEN Local(c) ELSE Relative(c, c.o)
ByIdConstraints(w) ==
    DistinctSeqsUpTo({WidgetConstraintOf(c) : c \in {d \in ByIdCatalogue : d.w = w}},
                     MaxBatch)

ByIdAddWidgetOp(w, constraints) ==
    /\ panicked = NoPanic
    /\ widgets[w] = "new"
    /\ \E s \in {ByIdAddWidget(Cur, w, constraints)} : Store(s)
    /\ widgets' = [widgets EXCEPT ![w] = "live"]
    /\ last_op' = [op |-> "ById::add_widget", w |-> w]
    /\ UNCHANGED <<suggested, uivars>>

ByIdRemoveWidgetOp(w) ==
    /\ panicked = NoPanic
    /\ widgets[w] \in {"live", "removed"}
    /\ \E s \in {ByIdRemoveWidget(Cur, w)} : Store(s)
    /\ widgets' = [widgets EXCEPT ![w] = "removed"]
    /\ last_op' = [op |-> "ById::remove_widget", w |-> w]
    /\ UNCHANGED <<suggested, uivars>>

ByIdUpdateSolverOp(width) ==
    /\ panicked = NoPanic
    /\ \E s \in {ByIdUpdateSolver(Cur, width)} : Store(s)
    /\ suggested' = MapPut(suggested, Var(Root, "right"), width)
    /\ last_op' = [op |-> "ById::update_solver", w |-> Root]
    /\ UNCHANGED <<widgets, uivars>>

NextById ==
    \/ \E w \in ByIdWidgets : \E constraints \in ByIdConstraints(w) :
          ByIdAddWidgetOp(w, constraints)
    \/ \E w \in ByIdWidgets : ByIdRemoveWidgetOp(w)
    \/ \E width \in 1..MaxVal : ByIdUpdateSolverOp(width)

SpecById == Init /\ [][NextById]_vars

-----------------------------------------------------------------------------
(* Properties. *)

dcl == debug_constraint_list

NoRepeat(q) == \A i, j \in 1..Len(q) : i # j => q[i] # q[j]

\* the elements of list q that are in S, in the order of q
RECURSIVE Keep(_, _)
Keep(q, S) ==
    IF q = <<>> THEN <<>>
    ELSE IF Head(q) \in S THEN <<Head(q)>> \o Keep(Tail(q), S)
    ELSE Keep(Tail(q), S)

\* the fields of the store that remove_widget works on
Core(s) ==
    <<s.solver, s.var_map, s.constraint_map, s.widget_map, s.debug_constraint_list>>

WidthDefRoot == Cn("WidthDef", Root, Root)
AlignLeftChild == Cn("AlignLeft", Child, Root)

\* C1: every constraint in the constraint set var_map keeps for a variable
\* is held by the solver; a removal leaves no variable pointing at a removed
\* constraint.
C1_NoDanglingIndex ==
    \A v \in DOMAIN var_map : var_map[v] \subseteq solver.cns

\* C1 witness: the root was just removed while the child is attached; the
\* child's left keeps its constraint set, from which the removed relative
\* constraint was stripped.
C1_Witness ==
    /\ last_op = [op |-> "remove_widget", w |-> Root]
    /\ widgets[Child] = "live"
    /\ AlignLeftChild \in DOMAIN constraint_map
    /\ AlignLeftChild \notin solver.cns
    /\ Var(Child, "left") \in DOMAIN var_map

\* C2 (as claimed): after remove_widget for a widget the solver holds no
\* constraint with a term on any of the widget's six layout variables.
C2_Claim ==
    (last_op.op = "remove_widget" /\ panicked = NoPanic)
        => \A c \in solver.cns : \A v \in TermVars(c) : v[1] # last_op.w

\* C3 (as claimed): after remove_widget for a widget, widget_map has no
\* entry for a variable of that widget.
C3_Claim ==
    (last_op.op = "remove_widget" /\ panicked = NoPanic)
        => \A f \in Fields : Var(last_op.w, f) \notin DOMAIN widget_map

\* C4 (as claimed): every entry of every LayoutChanged batch names a widget
\* that is attached when check_changes runs.
C4_Claim ==
    \A i \in 1..Len(events) : \A e \in events[i] : widgets[e[1]] = "live"

\* C5 (as claimed): no LayoutChanged carries an empty list.
C5_Claim ==
    \A i \in 1..Len(events) : events[i] # {}

\* C6: an operation of the store sends at most one LayoutChanged, and the
\* one it sends lists exactly the tracked variables the solver holds whose
\* value after the whole operation differs from the value before it, with
\* the value after it.
C6_OneBatchPerOperation ==
    [][panicked' = NoPanic =>
        LET tracked == {<<widget_map'[v], v, Value(solver', v)>> :
                           v \in {x \in DOMAIN widget_map' :
                                    /\ Known(solver', x)
                                    /\ Value(solver', x) # solver.vals[x]}}
        IN  /\ Len(events') <= 1
            /\ tracked # {} => Len(events') = 1
            /\ Len(events') = 1 => events'[1] = tracked]_vars

\* C6 witness: add_widget of the child suggested its right and added its
\* width definition in one call, and sent one batch with the width.
C6_Witness ==
    /\ last_op = [op |-> "add_widget", w |-> Child]
    /\ Cn("WidthDef", Child, Child) \in solver.cns
    /\ Var(Child, "right") \in DOMAIN solver.edits
    /\ events = << {<<Child, Var(Child, "width"), 1>>} >>

\* the root is attached with its left and top pinned and its right and
\* bottom registered as edit variables
RootScenario ==
    /\ widgets[Root] = "live"
    /\ {Cn("PinLeft", Root, Root), Cn("PinTop", Root, Root)} \subseteq solver.cns
    /\ {Var(Root, "right"), Var(Root, "bottom")} \subseteq DOMAIN solver.edits

\* a window_resized step that suggests a new right and a new bottom
ResizeToNew ==
    /\ RootScenario
    /\ last_op'.op = "window_resized"
    /\ panicked' = NoPanic
    /\ solver'.edits[Var(Root, "right")] # solver.edits[Var(Root, "right")]
    /\ solver'.edits[Var(Root, "bottom")] # solver.edits[Var(Root, "bottom")]

C8_RegisterOnceSuggestAlways ==
    /\ panicked # "DuplicateEditVariable"
    /\ panicked = NoPanic =>
          \A v \in DOMAIN suggested :
              v \in DOMAIN solver.edits /\ solver.edits[v] = suggested[v]

\* C8 witness: update_from_builder of the root suggested a value for the
\* right that set_root had registered, and the value took effect.
C8_Witness ==
    /\ last_op = [op |-> "update_from_builder", w |-> Root]
    /\ Var(Root, "right") \in DOMAIN suggested
    /\ suggested[Var(Root, "right")] = 1
    /\ events # <<>>
    /\ <<Root, Var(Root, "width"), 1>> \in events[1]

\* C9: remove_widget raises no error, calls solver.remove_constraint exactly
\* once for every constraint indexed under the widget's boundary variables
\* that the solver holds, and a second remove_widget for the same widget
\* raises no error, removes nothing and leaves the solver, the debug list
\* and the indices as the first left them.
C9_RemovalIdempotent ==
    panicked = NoPanic =>
        \A w \in Widgets :
            LET widget_vars == LayoutVars(w)
                indexed == UNION {var_map[v] :
                              v \in SeqRange(RemovedVars(widget_vars)) \cap DOMAIN var_map}
                first == RemoveWidget(Cur, widget_vars)
                again == RemoveWidget([first EXCEPT !.events = <<>>,
                                                    !.remove_calls = <<>>], widget_vars)
            IN  /\ first.panicked = NoPanic
                /\ NoRepeat(first.remove_calls)
                /\ SeqRange(first.remove_calls) = indexed \cap solver.cns
                /\ again.panicked = NoPanic
                /\ again.remove_calls = <<>>
                /\ Core(again) = Core(first)

\* C9 witness: the root was removed with its width definition, which is
\* indexed under its left and its right, and its width went back to 0.
C9_Witness ==
    /\ last_op = [op |-> "remove_widget", w |-> Root]
    /\ WidthDefRoot \in DOMAIN constraint_map
    /\ WidthDefRoot \notin solver.cns
    /\ events # <<>>
    /\ <<Root, Var(Root, "width"), 0>> \in events[1]

\* C10: the debug list holds exactly the constraints of the solver, each
\* once; adding constraints appends them to it in the order of the list
\* handed over, and removing a widget deletes its constraints from it and
\* leaves the others in their order.
C10_DebugListInsertionOrder ==
    panicked = NoPanic =>
        /\ SeqRange(dcl) = solver.cns
        /\ NoRepeat(dcl)
        /\ \A w \in Widgets :
              \A lu \in LayoutUpdates[w] \cup
                        {[edit_vars |-> <<>>, constraints |-> RootBuild]} :
                  LET r == AddWidget(Cur, w, lu)
                  IN  r.panicked = NoPanic =>
                          r.debug_constraint_list = dcl \o lu.constraints
        /\ \A w \in Widgets :
              LET r == RemoveWidget(Cur, LayoutVars(w))
              IN  r.debug_constraint_list = Keep(dcl, r.solver.cns)

\* C10 witness: the child and its constraints were removed, and the list
\* holds the root's constraints in the order set_root and a later update
\* added them.
C10_Witness ==
    /\ last_op = [op |-> "remove_widget", w |-> Child]
    /\ AlignLeftChild \in DOMAIN constraint_map
    /\ dcl = RootBuild \o << Cn("WidthPos", Root, Root) >>

\* the fields of LimnSolver
StoreFields ==
    <<solver, var_map, constraint_map, widget_map, debug_constraint_list>>

\* C11 (as claimed): when the solver rejects a constraint of a batch as
\* unsatisfiable, the store is as it was before the add_widget or
\* update_from_builder call.
C11_Claim ==
    [][panicked' = "UnsatisfiableConstraint" => StoreFields' = StoreFields]_vars

\* C12 (as claimed): for every constraint in the solver, var_map holds it
\* under exactly the variables of its terms, and constraint_map lists for it
\* exactly the variables of its terms, one per term.
C12_Claim ==
    panicked = NoPanic =>
        \A c \in solver.cns :
            /\ \A v \in Vars :
                  (v \in DOMAIN var_map /\ c \in var_map[v]) <=> v \in TermVars(c)
            /\ c \in DOMAIN constraint_map
            /\ constraint_map[c] = Terms(c)

\* x occurs before y in the list q
Before(q, x, y) == \E i, j \in 1..Len(q) : i < j /\ q[i] = x /\ q[j] = y

Occurs(q, x) == \E i \in 1..Len(q) : q[i] = x

\* C13 (as claimed): Ui::remove_widget of an attached widget purges the
\* widget's constraints from the store before it removes the node from the
\* graph.
C13_Claim ==
    (last_op.op = "Ui::remove_widget" /\ Occurs(steps, <<"graph.remove_widget", last_op.w>>))
        => Before(steps, <<"solver.remove_widget", last_op.w>>,
                         <<"graph.remove_widget", last_op.w>>)

\* the variables remove_widget of the store walks for a widget
Boundary(w) == SeqRange(RemovedVars(LayoutVars(w)))

BoundKinds == {"BoundLeft", "BoundTop", "BoundRight", "BoundBottom"}

\* C14: Ui::add_widget generates the contained-within constraints of the new
\* widget exactly when it is given a parent id, the parent is attached and
\* the parent has bound_children; the store gets them together with the
\* widget's own constraints, and the store's add_widget comes before the
\* node is inserted into the graph.
C14_ContainmentIffBoundParent ==
    panicked = NoPanic =>
        \A widget \in Builders : \A parent_id \in {None} \cup UiWidgets :
            (\A w \in BuilderIds(widget) : widgets[w] = "new") =>
                LET u == UiAddWidget(UiCur, widget, parent_id)
                    id == widget.id
                    bound == /\ parent_id # None
                             /\ InGraph(graph, parent_id)
                             /\ graph.nodes[parent_id].bound_children
                    generated == {c \in u.store.solver.cns \ solver.cns :
                                     c.w = id /\ c.kind \in BoundKinds}
                IN  /\ u.store.panicked = NoPanic
                    /\ generated = IF bound THEN SeqRange(BoundBy(id, parent_id)) ELSE {}
                    /\ SeqRange(widget.constraints) \subseteq u.store.solver.cns
                    /\ InGraph(u.graph, id)
                    /\ Before(u.steps, <<"solver.add_widget", id>>,
                                       <<"graph.add_widget", id>>)
                    /\ u.steps[1] = <<"solver.add_widget", id>>

\* C14 witness: the child was attached under the root, which has
\* bound_children, and its four contained-within constraints are in the
\* solver with its width definition.
C14_Witness ==
    /\ last_op = [op |-> "Ui::add_widget", w |-> Child]
    /\ InGraph(graph, Root)
    /\ graph.nodes[Root].bound_children
    /\ InGraph(graph, Child)
    /\ graph.nodes[Child].parent = Root
    /\ SeqRange(BoundBy(Child, Root)) \subseteq solver.cns
    /\ Cn("WidthDef", Child, Child) \in solver.cns
    /\ Before(steps, <<"solver.add_widget", Child>>, <<"graph.add_widget", Child>>)

\* the widgets below w in the graph
Descendants(g, w) == SeqRange(Dfs(g, w)) \ {w}

\* C20: Ui::remove_widget of an attached widget leaves in the solver every
\* constraint of a descendant that has no term on a boundary variable of
\* the removed widget, and leaves the widget_map entries of the descendants.
C20_DescendantsKeepConstraints ==
    [][(last_op'.op = "Ui::remove_widget" /\ panicked' = NoPanic
            /\ InGraph(graph, last_op'.w) /\ ~InGraph(graph', last_op'.w)) =>
        \A d \in Descendants(graph, last_op'.w) :
            /\ \A c \in solver.cns :
                  (c.w = d /\ TermVars(c) \cap Boundary(last_op'.w) = {})
                      => c \in solver'.cns
            /\ \A f \in Fields :
                  Var(d, f) \in DOMAIN widget_map
                      => /\ Var(d, f) \in DOMAIN widget_map'
                         /\ widget_map'[Var(d, f)] = d]_vars

\* C20 witness: the root was detached; the child under it keeps its width
\* definition and its widget_map entries, and the constraints that bound it
\* to the root are gone.
C20_Witness ==
    /\ last_op = [op |-> "Ui::remove_widget", w |-> Root]
    /\ ~InGraph(graph, Root)
    /\ InGraph(graph, Child)
    /\ Cn("WidthDef", Child, Child) \in solver.cns
    /\ Cn("BoundLeft", Child, Root) \in DOMAIN constraint_map
    /\ Cn("BoundLeft", Child, Root) \notin solver.cns
    /\ Var(Child, "width") \in DOMAIN widget_map

\* the widgets whose trigger_event the latest operation ran, in order
RECURSIVE Deliveries(_)
Deliveries(q) ==
    IF q = <<>> THEN <<>>
    ELSE IF Head(q)[1] = "trigger_event" THEN <<Head(q)[2]>> \o Deliveries(Tail(q))
    ELSE Deliveries(Tail(q))

Handled(w) == Occurs(steps, <<"handled", w>>)

\* a widget and its ancestors, from the widget up
RECURSIVE Chain(_, _)
Chain(g, id) ==
    IF Parent(g, id) = None THEN <<id>> ELSE <<id>> \o Chain(g, Parent(g, id))

\* C15: BubbleUp(id) for an attached id delivers to id and then to its
\* ancestors in turn; every widget delivered to but the last did not report
\* handled, the last one did unless it is the top of the chain; so there are
\* at most D + 1 deliveries for an id of depth D.
C15_BubbleUpStopsAtFirstHandled ==
    (last_op.op = "BubbleUp" /\ InGraph(graph, last_op.w)) =>
        LET d == Deliveries(steps)
            chain == Chain(graph, last_op.w)
        IN  /\ 1 <= Len(d) /\ Len(d) <= Len(chain)
            /\ \A i \in 1..Len(d) : d[i] = chain[i]
            /\ \A i \in 1..(Len(d) - 1) : ~Handled(d[i])
            /\ Len(d) < Len(chain) => Handled(d[Len(d)])

\* C15 witness: the event bubbled up from the grandchild, the child handled
\* it, and the root above the child got no delivery.
C15_Witness ==
    /\ last_op = [op |-> "BubbleUp", w |-> Grand]
    /\ Chain(graph, Grand) = <<Grand, Child, Root>>
    /\ Deliveries(steps) = <<Grand, Child>>
    /\ Handled(Child)

\* the widgets of the subtree rooted at id
SubTreeOf(g, id) == {w \in DOMAIN g.nodes : Occurs(Chain(g, w), id)}

\* C16: SubTree(id) for an attached id delivers to every widget of the
\* subtree of id exactly once, to a parent before its children and to the
\* children of one parent in the order of their insertion, whatever the
\* deliveries report.
C16_SubTreeDeliversToAll ==
    (last_op.op = "SubTree" /\ InGraph(graph, last_op.w)) =>
        LET d == Deliveries(steps)
        IN  /\ NoRepeat(d)
            /\ SeqRange(d) = SubTreeOf(graph, last_op.w)
            /\ \A w \in SeqRange(d) \ {last_op.w} : Before(d, Parent(graph, w), w)
            /\ \A w \in SeqRange(d) :
                  \A i, j \in 1..Len(ChildList(graph, w)) :
                      i < j => Before(d, ChildList(graph, w)[i], ChildList(graph, w)[j])

\* C16 witness: the whole tree got the event, the root first, although the
\* root reported handled.
C16_Witness ==
    /\ last_op = [op |-> "SubTree", w |-> Root]
    /\ ChildList(graph, Root) = <<Child, Sibling>>
    /\ Deliveries(steps) = <<Root, Child, Grand, Sibling>>
    /\ Handled(Root)

\* C17 (as claimed): Child(id) delivers to the child of id inserted first,
\* and only to it; to no widget when id has no children.
C17_Claim ==
    last_op.op = "Child" =>
        Deliveries(steps) = IF ChildList(graph, last_op.w) = <<>> THEN <<>>
                            ELSE << Head(ChildList(graph, last_op.w)) >>

\* C18: an event addressed to an id that is not in the graph, in any of the
\* four widget addressing modes, runs no handler, raises no error and leaves
\* the redraw counter, the graph and the store as they are.
C18_StaleIdIsNoOp ==
    [][(last_op'.op \in Modes /\ ~InGraph(graph, last_op'.w)) =>
        /\ steps' = <<>>
        /\ panicked' = NoPanic
        /\ redraw' = redraw
        /\ graph' = graph
        /\ StoreFields' = StoreFields]_vars

\* C18 witness: an event bubbled up from the child after the child was
\* detached, and nothing ran.
C18_Witness ==
    /\ last_op = [op |-> "BubbleUp", w |-> Child]
    /\ widgets[Child] = "removed"
    /\ InGraph(graph, Root)
    /\ steps = <<>>
    /\ panicked = NoPanic

\* C19: when handle_event returns, redraw is 2 if a handler set has_updated
\* on a widget delivered to, and is what it was before otherwise; no widget
\* keeps has_updated set.
C19_DirtySchedulesRepaint ==
    [][(last_op'.op \in Modes /\ panicked' = NoPanic) =>
        LET dirty == \E i \in 1..Len(steps') : steps'[i][1] = "has_updated"
        IN  /\ dirty => redraw' = 2
            /\ ~dirty => redraw' = redraw
            /\ \A w \in DOMAIN graph'.nodes : ~graph'.nodes[w].has_updated]_vars

\* C19 witness: a handler of the child set has_updated during an event
\* addressed to the child; redraw is 2 and the flag is cleared again.
C19_Witness ==
    /\ last_op = [op |-> "Widget", w |-> Child]
    /\ Occurs(steps, <<"has_updated", Child>>)
    /\ redraw = 2
    /\ ~graph.nodes[Child].has_updated

\* C24: no operation of the store unregisters an edit variable: one that is
\* registered before add_widget, update_from_builder, remove_widget or an
\* update_solver of the Ui is registered after it, whichever widget the
\* operation is about, and suggest_value for it succeeds.
C24_EditVariablesOutliveWidgets ==
    [][panicked' = NoPanic =>
        \A v \in DOMAIN solver.edits :
            /\ v \in DOMAIN solver'.edits
            /\ SolverSuggestValue([solver |-> solver', panicked |-> panicked'],
                                  v, 1).panicked = NoPanic]_vars

\* C24 witness: the child, whose layout update registered its right as edit
\* variable, and the root were removed; the child's right and the root's
\* right and bottom are still registered.
C24_Witness ==
    /\ panicked = NoPanic
    /\ last_op.op = "remove_widget"
    /\ widgets[Child] = "removed"
    /\ widgets[Root] = "removed"
    /\ {Var(Child, "right"), Var(Root, "right"), Var(Root, "bottom")}
          \subseteq DOMAIN solver.edits

\* what attaching a builder under parent_id is to do, in order: the widget
\* (store, tree, WidgetAttached to it, ChildAttached to its parent if it has
\* one), then each child of the builder in turn, with the widget as parent
RECURSIVE PreOrderSteps(_, _)
RECURSIVE PreOrderStepsAll(_, _)
PreOrderSteps(widget, parent_id) ==
    << <<"solver.add_widget", widget.id>>, <<"graph.add_widget", widget.id>>,
       <<"push WidgetAttachedEvent", widget.id>> >>
    \o (IF parent_id # None THEN << <<"push ChildAttachedEvent", parent_id>> >>
        ELSE <<>>)
    \o PreOrderStepsAll(widget.children, widget.id)
PreOrderStepsAll(children, id) ==
    IF children = <<>> THEN <<>>
    ELSE PreOrderSteps(Head(children), id) \o PreOrderStepsAll(Tail(children), id)

\* builders with children: the builders of the callers, the child with two
\* children and the child with a grandchild that has a child of its own
NestedBuilders ==
    {b \in Builders : b.children # <<>>}
    \cup {Builder(Child, FALSE, <<>>, <<GrandBuilder, SiblingBuilder>>),
          Builder(Child, FALSE, <<>>,
                  <<Builder(Grand, FALSE, <<>>, <<SiblingBuilder>>)>>)}

\* C26: Ui::add_widget of a builder with children, under any parent id or
\* none, attaches in pre-order whenever it completes: each widget is handed
\* to the store, inserted into the tree and its events (WidgetAttached to
\* it, then ChildAttached to its parent if a parent id was given) are pushed
\* before anything is done for its children, and each child of a builder
\* gets the builder's widget as parent.
C26_AttachInPreOrder ==
    panicked = NoPanic =>
        \A widget \in NestedBuilders : \A parent_id \in {None} \cup UiWidgets :
            (\A w \in BuilderIds(widget) : widgets[w] = "new") =>
                LET u == UiAddWidget(UiCur, widget, parent_id)
                IN  u.store.panicked = NoPanic =>
                        /\ u.steps = PreOrderSteps(widget, parent_id)
                        /\ \A i \in 1..Len(widget.children) :
                              /\ Parent(u.graph, widget.children[i].id) = widget.id
                              /\ \A j \in 1..Len(widget.children[i].children) :
                                    Parent(u.graph, widget.children[i].children[j].id)
                                        = widget.children[i].id

\* C26 witness: the child was attached under the root with the grandchild
\* as its builder's child: the child's four steps, then the grandchild's,
\* and the grandchild is the child's child in the tree.
C26_Witness ==
    /\ panicked = NoPanic
    /\ last_op = [op |-> "Ui::add_widget", w |-> Child]
    /\ Len(steps) = 8
    /\ steps[4] = <<"push ChildAttachedEvent", Root>>
    /\ steps[5] = <<"solver.add_widget", Grand>>
    /\ steps[8] = <<"push ChildAttachedEvent", Child>>
    /\ Parent(graph, Grand) = Child
    /\ Parent(graph, Child) = Root

\* C25: redraw is 0, 1 or 2 after every operation of the Ui; Ui::redraw,
\* a completed window_resized and a delivery whose handler set has_updated
\* leave it at 2, set_debug_draw_bounds leaves it at 1; a draw_if_needed
\* that completes draws one frame and takes one off the counter when the
\* counter is above 0, and draws nothing and leaves it at 0 otherwise: so
\* two frames follow a request and none after them.
C25_RedrawCounter ==
    [][/\ redraw' \in 0..2
       /\ last_op'.op = "Ui::redraw" => redraw' = 2
       /\ (last_op'.op = "Ui::window_resized" /\ panicked' = NoPanic) => redraw' = 2
       /\ (last_op'.op \in Modes /\ \E i \in 1..Len(steps') : steps'[i][1] = "has_updated")
             => redraw' = 2
       /\ last_op'.op = "Ui::set_debug_draw_bounds" => redraw' = 1
       /\ (last_op'.op = "Ui::draw_if_needed" /\ panicked' = NoPanic) =>
             IF redraw > 0
             THEN Occurs(steps', <<"draw", graph.root_id>>) /\ redraw' = redraw - 1
             ELSE steps' = <<>> /\ redraw' = 0]_vars

\* C25 witness: the frames asked for were drawn, and the latest
\* draw_if_needed drew nothing and left redraw at 0.
C25_Witness ==
    /\ panicked = NoPanic
    /\ last_op.op = "Ui::draw_if_needed"
    /\ InGraph(graph, graph.root_id)
    /\ redraw = 0
    /\ steps = <<>>

\* the value the entries of a batch leave in field f of widget w: that of
\* the last entry for the widget's variable of that name, else the old one
RECURSIVE LastValue(_, _, _, _)
LastValue(changes, w, f, old) ==
    IF changes = <<>> THEN old
    ELSE LastValue(Tail(changes), w, f,
                   IF Head(changes)[1] = w /\ Head(changes)[2] = Var(w, f)
                   THEN Head(changes)[3] ELSE old)

\* the batches handled: those of the layouts, and every batch of one entry
\* for a variable of a widget
AnyBatches ==
    LayoutBatches
    \cup {<< <<w, Var(w, f), v>> >> : w \in UiWidgets, f \in Fields, v \in 0..1}

\* C27: handling a LayoutChanged batch, whatever its entries, raises no
\* error and leaves the store alone; every widget in the tree keeps its node
\* with the bounds the entries naming it give (its old bounds when none
\* names it), no node appears for an entry whose widget is not in the tree,
\* and redraw is 2 afterwards, also for the empty batch and for a batch of
\* stale entries only.
C27_LayoutChangeSkipsStale ==
    panicked = NoPanic =>
        \A changes \in AnyBatches :
            LET u == HandleLayoutChange(UiCur, changes)
            IN  /\ u.store = Cur
                /\ u.redraw = 2
                /\ u.graph.root_id = graph.root_id
                /\ DOMAIN u.graph.nodes = DOMAIN graph.nodes
                /\ \A w \in DOMAIN graph.nodes :
                      u.graph.nodes[w] =
                          [graph.nodes[w] EXCEPT !.bounds =
                              [f \in DOMAIN @ |-> LastValue(changes, w, f, @[f])]]

\* C27 witness: a batch whose first entries name the detached child was
\* handled while the root and the sibling were in the tree: the root got
\* its rectangle, the sibling kept its bounds and redraw is 2.
C27_Witness ==
    /\ panicked = NoPanic
    /\ last_op = [op |-> "handle_layout_change", w |-> Child]
    /\ widgets[Child] = "removed"
    /\ ~InGraph(graph, Child)
    /\ InGraph(graph, Root) /\ graph.nodes[Root].bounds = UnitAt(1)
    /\ InGraph(graph, Sibling) /\ graph.nodes[Sibling].bounds = ZeroRect
    /\ redraw = 2

\* the points of the cursor: in the unit square at 0, in the one at 1, in none
Points == {[x |-> 0, y |-> 0], [x |-> 1, y |-> 0], [x |-> 0, y |-> 1]}

\* the widgets of the tree under the root whose bounds contain the point
Over(point) ==
    {w \in SubTreeOf(graph, graph.root_id) :
        PointInsideRect(point, graph.nodes[w].bounds)}

Holding(t) == pc[t].at \in {"access", "drop"}

\* C22: a thread reads or writes VAR_NAMES only while it holds the lock and
\* holds it at no other time, so it never takes the lock while holding it
\* and has given it back when its call returns; no two threads are inside
\* an access together; and whenever a thread waits for the lock, the lock
\* is free or its holder is inside an access that ends without waiting, so
\* no interleaving of registrations and dumps deadlocks.
C22_NamesLockExclusive ==
    /\ \A t \in Threads : Holding(t) <=> lock = t
    /\ \A t, o \in Threads : (Holding(t) /\ Holding(o)) => t = o
    /\ (\E t \in Threads : pc[t].at = "lock") =>
          (lock = NoThread \/ \E h \in Threads : lock = h /\ Holding(h))

\* C22 witness: thread 1 is inside fmt_variable, holding the lock, while
\* thread 2 waits for the lock in add_debug_var_name.
C22_Witness ==
    /\ pc[1].at = "access" /\ Head(pc[1].calls).fn = "fmt_variable"
    /\ pc[2].at = "lock" /\ Head(pc[2].calls).fn = "add_debug_var_name"
    /\ lock = 1

\* the constraints on the list of a widget id
Listed(id) ==
    IF id \in DOMAIN constraint_map THEN SeqRange(constraint_map[id]) ELSE {}

\* C21 (as claimed): a constraint a widget added as relative to another
\* widget id is, while the solver holds it, on the constraint lists of both
\* widgets; and once remove_widget has run for a widget, the solver holds no
\* constraint of that widget and none relative to it.
C21_Claim ==
    /\ [](panicked = NoPanic =>
            \A c \in solver.cns :
                c.o # c.w => (c \in Listed(c.w) /\ c \in Listed(c.o)))
    /\ [][(last_op'.op = "ById::remove_widget" /\ panicked' = NoPanic) =>
            \A c \in solver'.cns : last_op'.w \notin {c.w, c.o}]_vars

====
